---- MODULE Spec2Model ----
(***************************************************************************)
(* Model of tempSensorScript.py: a poll loop that reads every DS18B20      *)
(* probe under /sys/bus/w1/devices, rounds the readings to whole degrees,  *)
(* drives one GPIO pin from the minimum reading and builds a telemetry     *)
(* payload, until a KeyboardInterrupt ends it and the GPIO is cleaned up.  *)
(*                                                                         *)
(* Representation of the Python values:                                    *)
(*   - a dict is a sequence of entries [id |-> key, v |-> value] with      *)
(*     distinct keys, in insertion order (what iteration, .values() and    *)
(*     .items() walk);                                                     *)
(*   - the float milli_c / 1000.0 is the record [whole, frac] with         *)
(*     value whole + frac/1000 and 0 <= frac < 1000 (exact for every       *)
(*     reading a probe can produce);                                       *)
(*   - a sensor file's content is [numeric, n]: the decimal text of n, or  *)
(*     (numeric = FALSE) text that int() rejects;                          *)
(*   - a local that is not bound yet is the empty sequence.                *)
(***************************************************************************)
EXTENDS Integers, Sequences, FiniteSets, TLC

\* ---------- bounds of the model ----------

\* most paths one glob.glob() call returns
MaxProbes == 2
\* the completed-iterations counters stop counting here (the loop goes on)
MaxCycles == 3
\* raw readings go up to this many half degrees above the threshold
MaxHalfSteps == 2

\* ---------- configuration ----------

THRESHOLD_C == 10

\* ---------- the environment's values ----------

ProbeDirs == {"28-a", "28-b"}

\* What glob.glob(SENSOR_GLOB) can return as one path.
SensorPath(dir) == <<"sys", "bus", "w1", "devices", dir, "temperature">>

\* Raw milli-degree readings: a negative tie, a near-tie below the threshold,
\* and the half degrees from just below the threshold upwards (ties and
\* exact degrees).
RawVals ==
  {-500, THRESHOLD_C * 1000 - 501}
    \cup {THRESHOLD_C * 1000 + k * 500 : k \in (-1)..MaxHalfSteps}

\* text that int() rejects
Garbage == [numeric |-> FALSE, n |-> 0]

FileContents == {[numeric |-> TRUE, n |-> r] : r \in RawVals} \cup {Garbage}

\* One discovered sensor file: its path and what reading it yields.
SensorFiles == [path : {SensorPath(d) : d \in ProbeDirs}, raw : FileContents]

RECURSIVE SeqsUpTo(_, _)
SeqsUpTo(S, n) ==
  IF n = 0 THEN {<<>>}
  ELSE LET shorter == SeqsUpTo(S, n - 1)
       IN  shorter \cup {Append(s, x) : s \in {t \in shorter : Len(t) = n - 1}, x \in S}

\* Every result of one discovery pass, the empty one included.
Discoveries == SeqsUpTo(SensorFiles, MaxProbes)

\* ---------- Python dict ----------

DictHas(d, k) == \E i \in DOMAIN d : d[i].id = k

DictGet(d, k) == d[CHOOSE i \in DOMAIN d : d[i].id = k].v

\* d[k] = v: an existing key keeps its position, a new key goes last.
DictSet(d, k, v) ==
  IF DictHas(d, k)
    THEN [i \in DOMAIN d |-> IF d[i].id = k THEN [id |-> k, v |-> v] ELSE d[i]]
    ELSE Append(d, [id |-> k, v |-> v])

DictValues(d) == [i \in DOMAIN d |-> d[i].v]

\* ---------- read_all_temperatures_c ----------

\* path.split("/")[-2]
SensorDir(path) == path[Len(path) - 1]

\* int(raw) succeeds
CanParseInt(raw) == raw.numeric

\* milli_c = int(raw)
ParseInt(raw) == raw.n

\* milli_c / 1000.0
MilliToC(milli_c) == [whole |-> milli_c \div 1000, frac |-> milli_c % 1000]

\* ReadLoop with an unparsable file skipped (continue) instead of raised.
RECURSIVE ReadLoopSkipsUnparsable(_, _, _)
ReadLoopSkipsUnparsable(paths, i, temps) ==
  IF i > Len(paths)
    THEN [ok |-> TRUE, temps |-> temps, error |-> "none"]
    ELSE IF ~paths[i].raw.numeric
      THEN ReadLoopSkipsUnparsable(paths, i + 1, temps)
      ELSE ReadLoopSkipsUnparsable(paths, i + 1,
             [j \in 1..(Len(temps) + 1) |->
                IF j <= Len(temps) THEN temps[j]
                ELSE [id |-> paths[i].path[Len(paths[i].path) - 1],
                      v |-> [whole |-> paths[i].raw.n \div 1000,
                             frac |-> paths[i].raw.n % 1000]]])

RECURSIVE ReadLoop(_, _, _)
ReadLoop(paths, i, temps) ==
  IF i > Len(paths)
    THEN [ok |-> TRUE, temps |-> temps, error |-> "none"]
    ELSE IF ~CanParseInt(paths[i].raw)
      THEN [ok |-> FALSE, temps |-> <<>>, error |-> "ValueError"]
      ELSE ReadLoop(paths, i + 1,
                    DictSet(temps, SensorDir(paths[i].path), MilliToC(ParseInt(paths[i].raw))))

read_all_temperatures_c(paths) ==
  IF paths = <<>>
    THEN [ok |-> FALSE, temps |-> <<>>, error |-> "FileNotFoundError"]
    ELSE ReadLoop(paths, 1, <<>>)

\* ---------- the rounding of main ----------

\* PyRound with a tie rounded up, as int(math.floor(temp + 0.5)) does.
PyRoundHalfUp(temp) == IF temp.frac >= 500 THEN temp.whole + 1 ELSE temp.whole

\* int(round(temp)): Python 3 rounds a float to the nearest integer, a tie
\* to the even one.
PyRound(temp) ==
  IF temp.frac < 500 THEN temp.whole
  ELSE IF temp.frac > 500 THEN temp.whole + 1
  ELSE IF temp.whole % 2 = 0 THEN temp.whole ELSE temp.whole + 1

RoundAll(tc) == [i \in DOMAIN tc |-> [id |-> tc[i].id, v |-> PyRound(tc[i].v)]]

\* ---------- set_output_based_on_temps ----------

RECURSIVE MinFrom(_, _, _)
MinFrom(vals, i, best) ==
  IF i > Len(vals) THEN best
  ELSE MinFrom(vals, i + 1, IF vals[i] < best THEN vals[i] ELSE best)

\* PyMin taking the first probe's value instead of the least.
PyMinFirstOnly(vals) == vals[1]

\* min(values) of a non-empty sequence
PyMin(vals) == MinFrom(vals, 2, vals[1])

\* GpioLevelFor with the comparison of line 65 written <=.
GpioLevelForNonStrict(min_temp) == IF min_temp <= THRESHOLD_C THEN "HIGH" ELSE "LOW"

\* the level the if/else writes for min_temp
GpioLevelFor(min_temp) == IF min_temp < THRESHOLD_C THEN "HIGH" ELSE "LOW"

\* ---------- send_temperatures ----------

\* BuildPayload reporting the first probe's temperature as the minimum.
BuildPayloadMinOfFirst(tc, ti, min_temp) ==
  [unit |-> "C",
   sensors |-> [i \in DOMAIN tc |->
                  [id |-> tc[i].id,
                   temperature_c |-> tc[i].v,
                   temperature_int_c |-> ti[i].v]],
   min_temperature_int_c |-> ti[1].v]

\* payload = {...} of lines 89-102
BuildPayload(tc, ti, min_temp) ==
  [unit |-> "C",
   sensors |-> [i \in DOMAIN tc |->
                  [id |-> tc[i].id,
                   temperature_c |-> tc[i].v,
                   temperature_int_c |-> DictGet(ti, tc[i].id)]],
   min_temperature_int_c |-> min_temp]

\* ---------- state ----------

VARIABLES
  pc,            \* where main is
  gpio,          \* the pin: "UNSET", "LOW", "HIGH" or "INPUT" (after cleanup)
  paths,         \* what glob.glob returned in this cycle
  temps_c,       \* main's temps_c
  temps_int,     \* main's temps_int
  min_temp_int,  \* main's min_temp_int: <<>> or <<n>>
  payload,       \* send_temperatures' payload: <<>> or <<p>>
  sinkOK,        \* whether the collector at API_URL would accept a POST
  posts,         \* HTTP POSTs made
  failedStage,   \* the stage that raised in this cycle, or "none"
  nReads,        \* calls of read_all_temperatures_c in this cycle
  nDecisions,    \* threshold comparisons in this cycle
  nWrites,       \* GPIO.output calls in this cycle
  nReports,      \* calls of send_temperatures in this cycle
  setupCount,    \* completed setup_gpio calls
  cleanupCount,  \* GPIO.cleanup calls
  cycles,        \* finished loop iterations, up to MaxCycles
  prevFailed,    \* the loop iteration before this one raised
  interrupted,   \* a KeyboardInterrupt was delivered inside the try
  intAt,         \* pc at the KeyboardInterrupt, or "none"
  gpioBefore,    \* the pin when this loop iteration began
  lastWrite      \* whether the least temperature of the latest cycle whose
                 \* GPIO.output returned was below the threshold: "below",
                 \* "notbelow", or "none" when no GPIO.output has returned

vars == <<pc, gpio, paths, temps_c, temps_int, min_temp_int, payload, sinkOK, posts,
          failedStage, nReads, nDecisions, nWrites, nReports, setupCount,
          cleanupCount, cycles, prevFailed, interrupted, intAt, gpioBefore,
          lastWrite>>

locals == <<paths, temps_c, temps_int, min_temp_int, payload>>
counts == <<nReads, nDecisions, nWrites, nReports>>
history == <<setupCount, cleanupCount, cycles, prevFailed, interrupted, intAt,
            gpioBefore>>

CyclePcs == {"read", "round", "decide", "send", "sleep"}

Bump(n) == IF n < MaxCycles THEN n + 1 ELSE n

Init ==
  /\ pc = "start"
  /\ gpio = "UNSET"
  /\ paths = <<>>
  /\ temps_c = <<>>
  /\ temps_int = <<>>
  /\ min_temp_int = <<>>
  /\ payload = <<>>
  /\ sinkOK \in BOOLEAN
  /\ posts = 0
  /\ failedStage = "none"
  /\ nReads = 0
  /\ nDecisions = 0
  /\ nWrites = 0
  /\ nReports = 0
  /\ setupCount = 0
  /\ cleanupCount = 0
  /\ cycles = 0
  /\ prevFailed = FALSE
  /\ interrupted = FALSE
  /\ intAt = "none"
  /\ gpioBefore = "UNSET"
  /\ lastWrite = "none"

\* ---------- main ----------

\* SetupGpio with the call of line 121 left out: the loop is entered with the
\* pin never set up.
SetupGpioLeftOut ==
  /\ pc = "start"
  /\ pc' = "read"
  /\ UNCHANGED <<gpio, locals, counts, sinkOK, posts, failedStage, history, lastWrite>>

\* setup_gpio() returns: the pin is an output driven LOW.
SetupGpio ==
  /\ pc = "start"
  /\ gpio' = "LOW"
  /\ setupCount' = setupCount + 1
  /\ gpioBefore' = "LOW"
  /\ pc' = "read"
  /\ UNCHANGED <<locals, counts, sinkOK, posts, failedStage, cleanupCount, cycles,
                 prevFailed, interrupted, intAt, lastWrite>>

\* Line 121 raises (the driver's error, or a KeyboardInterrupt delivered
\* before the try is entered); it is outside every try, so the traceback
\* ends the process and the finally clause does not run.
SetupGpioFails ==
  /\ pc = "start"
  /\ pc' = "aborted"
  /\ UNCHANGED <<gpio, locals, counts, sinkOK, posts, failedStage, history, lastWrite>>

\* ReadTemperatures without the try of line 125: a failed read leaves the loop.
ReadTemperaturesUncaught ==
  /\ pc = "read"
  /\ \E found \in Discoveries :
       LET r == read_all_temperatures_c(found)
       IN  /\ paths' = found
           /\ nReads' = nReads + 1
           /\ IF r.ok
                THEN /\ temps_c' = r.temps
                     /\ pc' = "round"
                     /\ UNCHANGED failedStage
                ELSE /\ UNCHANGED temps_c
                     /\ pc' = "finally"
                     /\ failedStage' = "read"
  /\ UNCHANGED <<gpio, temps_int, min_temp_int, payload, sinkOK, posts, nDecisions,
                 nWrites, nReports, history, lastWrite>>

\* ReadTemperatures with a failed read answered by the safe default: the
\* handler writes the pin LOW before the sleep.
ReadTemperaturesFailSafe ==
  /\ pc = "read"
  /\ \E found \in Discoveries :
       LET r == read_all_temperatures_c(found)
       IN  /\ paths' = found
           /\ nReads' = nReads + 1
           /\ IF r.ok
                THEN /\ temps_c' = r.temps
                     /\ pc' = "round"
                     /\ UNCHANGED <<failedStage, gpio>>
                ELSE /\ UNCHANGED temps_c
                     /\ pc' = "sleep"
                     /\ failedStage' = "read"
                     /\ gpio' = "LOW"
  /\ UNCHANGED <<temps_int, min_temp_int, payload, sinkOK, posts, nDecisions,
                 nWrites, nReports, history, lastWrite>>

\* temps_c = read_all_temperatures_c(); an exception goes to the handler of
\* line 131, which logs it and falls through to the sleep.
ReadTemperatures ==
  /\ pc = "read"
  /\ \E found \in Discoveries :
       LET r == read_all_temperatures_c(found)
       IN  /\ paths' = found
           /\ nReads' = nReads + 1
           /\ IF r.ok
                THEN /\ temps_c' = r.temps
                     /\ pc' = "round"
                     /\ UNCHANGED failedStage
                ELSE /\ UNCHANGED temps_c
                     /\ pc' = "sleep"
                     /\ failedStage' = "read"
  /\ UNCHANGED <<gpio, temps_int, min_temp_int, payload, sinkOK, posts, nDecisions,
                 nWrites, nReports, history, lastWrite>>

\* temps_int = {sid: int(round(temp)) for sid, temp in temps_c.items()}
RoundTemperatures ==
  /\ pc = "round"
  /\ temps_int' = RoundAll(temps_c)
  /\ pc' = "decide"
  /\ UNCHANGED <<gpio, paths, temps_c, min_temp_int, payload, sinkOK, posts,
                 failedStage, counts, history, lastWrite>>

\* SetOutput with GPIO.output's error not caught by line 131: it ends the loop.
SetOutputWriteErrorFatal ==
  /\ pc = "decide"
  /\ temps_int # <<>>
  /\ LET min_temp == PyMin(DictValues(temps_int))
     IN  /\ nDecisions' = nDecisions + 1
         /\ nWrites' = nWrites + 1
         /\ \E written \in BOOLEAN :
              IF written
                THEN /\ gpio' = GpioLevelFor(min_temp)
                     /\ min_temp_int' = <<min_temp>>
                     /\ pc' = "send"
                     /\ lastWrite' = IF min_temp < THRESHOLD_C THEN "below" ELSE "notbelow"
                     /\ UNCHANGED failedStage
                ELSE /\ failedStage' = "actuate"
                     /\ pc' = "finally"
                     /\ UNCHANGED <<gpio, min_temp_int, lastWrite>>
  /\ UNCHANGED <<paths, temps_c, temps_int, payload, sinkOK, posts, nReads, nReports,
                 history>>

\* SetOutput with hysteresis: a HIGH pin goes LOW only one degree above the
\* threshold.
SetOutputWithHysteresis ==
  /\ pc = "decide"
  /\ temps_int # <<>>
  /\ LET min_temp == PyMin(DictValues(temps_int))
     IN  /\ nDecisions' = nDecisions + 1
         /\ nWrites' = nWrites + 1
         /\ gpio' = IF gpio = "HIGH" /\ min_temp < THRESHOLD_C + 1
                      THEN "HIGH" ELSE GpioLevelFor(min_temp)
         /\ min_temp_int' = <<min_temp>>
         /\ lastWrite' = IF min_temp < THRESHOLD_C THEN "below" ELSE "notbelow"
         /\ pc' = "send"
  /\ UNCHANGED <<paths, temps_c, temps_int, payload, sinkOK, posts, failedStage,
                 nReads, nReports, history>>

\* SetOutput with the active decision applied as a toggle of the pin.
SetOutputToggles ==
  /\ pc = "decide"
  /\ temps_int # <<>>
  /\ LET min_temp == PyMin(DictValues(temps_int))
     IN  /\ nDecisions' = nDecisions + 1
         /\ nWrites' = nWrites + 1
         /\ gpio' = IF GpioLevelFor(min_temp) = "HIGH" /\ gpio = "HIGH"
                      THEN "LOW" ELSE GpioLevelFor(min_temp)
         /\ min_temp_int' = <<min_temp>>
         /\ lastWrite' = IF min_temp < THRESHOLD_C THEN "below" ELSE "notbelow"
         /\ pc' = "send"
  /\ UNCHANGED <<paths, temps_c, temps_int, payload, sinkOK, posts, failedStage,
                 nReads, nReports, history>>

\* SetOutput calling GPIO.output only when the level changes.
SetOutputOnChangeOnly ==
  /\ pc = "decide"
  /\ temps_int # <<>>
  /\ LET min_temp == PyMin(DictValues(temps_int))
     IN  /\ nDecisions' = nDecisions + 1
         /\ nWrites' = IF gpio = GpioLevelFor(min_temp) THEN nWrites ELSE nWrites + 1
         /\ gpio' = GpioLevelFor(min_temp)
         /\ min_temp_int' = <<min_temp>>
         /\ pc' = "send"
  /\ lastWrite' = IF \E i \in DOMAIN temps_int : temps_int[i].v < THRESHOLD_C
                    THEN "below" ELSE "notbelow"
  /\ UNCHANGED <<paths, temps_c, temps_int, payload, sinkOK, posts, failedStage,
                 nReads, nReports, history>>

\* SetOutput with min(temps_int.values(), default=THRESHOLD_C): no readings
\* decide as a warm reading does and the pin is written LOW.
SetOutputDefaultMin ==
  /\ pc = "decide"
  /\ LET min_temp == IF temps_int = <<>> THEN THRESHOLD_C
                     ELSE PyMin(DictValues(temps_int))
     IN  /\ nDecisions' = nDecisions + 1
         /\ nWrites' = nWrites + 1
         /\ \E written \in BOOLEAN :
              IF written
                THEN /\ gpio' = GpioLevelFor(min_temp)
                     /\ min_temp_int' = <<min_temp>>
                     /\ pc' = "send"
                     /\ lastWrite' =
                          IF min_temp < THRESHOLD_C THEN "below" ELSE "notbelow"
                     /\ UNCHANGED failedStage
                ELSE /\ failedStage' = "actuate"
                     /\ pc' = "sleep"
                     /\ UNCHANGED <<gpio, min_temp_int, lastWrite>>
  /\ UNCHANGED <<paths, temps_c, temps_int, payload, sinkOK, posts, nReads, nReports,
                 history>>

\* min_temp_int = set_output_based_on_temps(temps_int). min() of no values
\* raises ValueError; GPIO.output may raise (the driver's RuntimeError).
SetOutput ==
  /\ pc = "decide"
  /\ IF temps_int = <<>>
       THEN /\ failedStage' = "decide"
            /\ pc' = "sleep"
            /\ UNCHANGED <<gpio, min_temp_int, nDecisions, nWrites, lastWrite>>
       ELSE LET min_temp == PyMin(DictValues(temps_int))
            IN  /\ nDecisions' = nDecisions + 1
                /\ nWrites' = nWrites + 1
                /\ \E written \in BOOLEAN :
                     IF written
                       THEN /\ gpio' = GpioLevelFor(min_temp)
                            /\ min_temp_int' = <<min_temp>>
                            /\ pc' = "send"
                            /\ lastWrite' =
                                 IF \E i \in DOMAIN temps_int :
                                      temps_int[i].v < THRESHOLD_C
                                   THEN "below" ELSE "notbelow"
                            /\ UNCHANGED failedStage
                       ELSE /\ failedStage' = "actuate"
                            /\ pc' = "sleep"
                            /\ UNCHANGED <<gpio, min_temp_int, lastWrite>>
  /\ UNCHANGED <<paths, temps_c, temps_int, payload, sinkOK, posts, nReads, nReports,
                 history>>

\* SendTemperatures with the POST made and a refusing collector ending the
\* process (an error that is no Exception, as sys.exit raises).
SendTemperaturesFatal ==
  /\ pc = "send"
  /\ payload' = <<BuildPayload(temps_c, temps_int, min_temp_int[1])>>
  /\ nReports' = nReports + 1
  /\ posts' = IF posts < MaxCycles THEN posts + 1 ELSE posts
  /\ pc' = IF sinkOK THEN "sleep" ELSE "finally"
  /\ UNCHANGED <<gpio, paths, temps_c, temps_int, min_temp_int, sinkOK,
                 failedStage, nReads, nDecisions, nWrites, history, lastWrite>>

\* send_temperatures(temps_c, temps_int, min_temp_int): the payload is built,
\* the POST is commented out, so the collector is never contacted.
SendTemperatures ==
  /\ pc = "send"
  /\ payload' = <<BuildPayload(temps_c, temps_int, min_temp_int[1])>>
  /\ nReports' = nReports + 1
  /\ pc' = "sleep"
  /\ UNCHANGED <<gpio, paths, temps_c, temps_int, min_temp_int, sinkOK, posts,
                 failedStage, nReads, nDecisions, nWrites, history, lastWrite>>

\* Sleep with the pin put back to LOW at the end of every cycle.
SleepResetsOutput ==
  /\ pc = "sleep"
  /\ pc' = "read"
  /\ cycles' = Bump(cycles)
  /\ prevFailed' = (failedStage # "none")
  /\ failedStage' = "none"
  /\ paths' = <<>>
  /\ temps_c' = <<>>
  /\ temps_int' = <<>>
  /\ min_temp_int' = <<>>
  /\ payload' = <<>>
  /\ nReads' = 0
  /\ nDecisions' = 0
  /\ nWrites' = 0
  /\ nReports' = 0
  /\ gpio' = "LOW"
  /\ gpioBefore' = "LOW"
  /\ UNCHANGED <<sinkOK, posts, setupCount, cleanupCount, interrupted, intAt,
                 lastWrite>>

\* time.sleep(POLL_INTERVAL_SECONDS) returns and the while loop starts the
\* next iteration. The locals of the finished iteration are dead (each is
\* assigned before its next use), so they are shown unbound again.
Sleep ==
  /\ pc = "sleep"
  /\ pc' = "read"
  /\ cycles' = Bump(cycles)
  /\ prevFailed' = (failedStage # "none")
  /\ failedStage' = "none"
  /\ paths' = <<>>
  /\ temps_c' = <<>>
  /\ temps_int' = <<>>
  /\ min_temp_int' = <<>>
  /\ payload' = <<>>
  /\ nReads' = 0
  /\ nDecisions' = 0
  /\ nWrites' = 0
  /\ nReports' = 0
  /\ gpioBefore' = gpio
  /\ UNCHANGED <<gpio, sinkOK, posts, setupCount, cleanupCount, interrupted, intAt,
                 lastWrite>>

\* Interrupt with a signal in time.sleep only noted: the sleep is resumed.
InterruptWaitsOutSleep ==
  /\ pc \in CyclePcs
  /\ ~interrupted
  /\ interrupted' = TRUE
  /\ intAt' = pc
  /\ pc' = IF pc = "sleep" THEN "sleep" ELSE "finally"
  /\ UNCHANGED <<gpio, locals, counts, sinkOK, posts, failedStage, setupCount,
                 cleanupCount, cycles, prevFailed, gpioBefore, lastWrite>>

\* KeyboardInterrupt inside the outer try (lines 123-134), in a cycle step or
\* in time.sleep: it is no Exception, so line 131 lets it pass, line 136
\* catches it and control goes to the finally clause. Nothing reads the
\* cycle's locals from there on, so they are shown unbound.
Interrupt ==
  /\ pc \in CyclePcs
  /\ interrupted' = TRUE
  /\ intAt' = pc
  /\ pc' = "finally"
  /\ paths' = <<>>
  /\ temps_c' = <<>>
  /\ temps_int' = <<>>
  /\ min_temp_int' = <<>>
  /\ payload' = <<>>
  /\ UNCHANGED <<gpio, counts, sinkOK, posts, failedStage, setupCount,
                 cleanupCount, cycles, prevFailed, gpioBefore, lastWrite>>

\* Cleanup without the finally clause: main returns with the pin as it is.
CleanupLeftOut ==
  /\ pc = "finally"
  /\ pc' = "done"
  /\ UNCHANGED <<gpio, locals, counts, sinkOK, posts, failedStage, history, lastWrite>>

\* finally: GPIO.cleanup() returns the pin to an input; main returns.
Cleanup ==
  /\ pc = "finally"
  /\ gpio' = "INPUT"
  /\ cleanupCount' = cleanupCount + 1
  /\ pc' = "done"
  /\ UNCHANGED <<locals, counts, sinkOK, posts, failedStage, setupCount, cycles,
                 prevFailed, interrupted, intAt, gpioBefore, lastWrite>>

Next ==
  \/ SetupGpio
  \/ SetupGpioFails
  \/ ReadTemperatures
  \/ RoundTemperatures
  \/ SetOutput
  \/ SendTemperatures
  \/ Sleep
  \/ Interrupt
  \/ Cleanup

Spec == Init /\ [][Next]_vars

\* The interpreter runs the next statement, time.sleep returns after its 60
\* seconds and the finally clause runs; a KeyboardInterrupt need not come.
Fairness ==
  /\ WF_vars(SetupGpio \/ SetupGpioFails)
  /\ WF_vars(ReadTemperatures)
  /\ WF_vars(RoundTemperatures)
  /\ WF_vars(SetOutput)
  /\ WF_vars(SendTemperatures)
  /\ WF_vars(Sleep)
  /\ WF_vars(Cleanup)

LiveSpec == Init /\ [][Next]_vars /\ Fairness

\* main about to run line 129, set_output_based_on_temps(temps_int), in its
\* first or second cycle, with the pin as setup_gpio or an earlier write
\* left it, and temps_int any dict the function can be handed: the rounding
\* of a sample read_all_temperatures_c returns, or the dict of no readings,
\* which the function accepts and the reader never returns.
DecideInit ==
  /\ pc = "decide"
  /\ \E found \in Discoveries :
       LET r == read_all_temperatures_c(found)
       IN  /\ paths = found
           /\ temps_c = r.temps
           /\ temps_int = RoundAll(r.temps)
           /\ found # <<>> => r.ok
  /\ min_temp_int = <<>>
  /\ payload = <<>>
  /\ sinkOK \in BOOLEAN
  /\ posts = 0
  /\ failedStage = "none"
  /\ nReads = 1
  /\ nDecisions = 0
  /\ nWrites = 0
  /\ nReports = 0
  /\ setupCount = 1
  /\ cleanupCount = 0
  /\ prevFailed = FALSE
  /\ interrupted = FALSE
  /\ intAt = "none"
  /\ \E last \in {"none", "below", "notbelow"} :
       /\ lastWrite = last
       /\ cycles = IF last = "none" THEN 0 ELSE 1
       /\ gpio = IF last = "below" THEN "HIGH" ELSE "LOW"
       /\ gpioBefore = gpio

\* main from its start, and set_output_based_on_temps called on any dict.
CallSpec == (Init \/ DecideInit) /\ [][Next]_vars

\* ---------- what the properties speak about ----------

\* The raw reading behind the dict entry of probe id in this cycle: that of
\* the last discovered path of the probe.
RawOf(id) ==
  LET last == CHOOSE i \in DOMAIN paths :
                /\ SensorDir(paths[i].path) = id
                /\ \A j \in DOMAIN paths : j > i => SensorDir(paths[j].path) # id
  IN  paths[last].raw.n

Values(d) == {d[i].v : i \in DOMAIN d}

\* m is the least of the set vals
IsLeast(m, vals) == m \in vals /\ \A v \in vals : m <= v

\* The cycle's actuator write has been made without error.
Written == pc \in {"send", "sleep"} /\ failedStage = "none" /\ nWrites = 1

\* ---------- C1 ----------

\* C1: once the decision step has written the output for a non-empty set of
\* rounded temperatures, the output is HIGH if and only if the least of them
\* is strictly below the threshold, LOW if and only if it is at or above it,
\* and the least one is the value returned.
C1_ActiveIffMinBelowThreshold ==
  Written =>
    /\ temps_int # <<>>
    /\ \E m \in Values(temps_int) :
         /\ IsLeast(m, Values(temps_int))
         /\ min_temp_int = <<m>>
         /\ gpio = "HIGH" <=> m < THRESHOLD_C
         /\ gpio = "LOW" <=> m >= THRESHOLD_C

\* Two probes, the colder one second and exactly at the threshold: LOW.
C1_Witness ==
  /\ pc = "send"
  /\ Len(temps_int) = 2
  /\ temps_int[1].v > THRESHOLD_C
  /\ temps_int[2].v = THRESHOLD_C
  /\ gpio = "LOW"

\* ---------- C2 ----------

\* r/1000 rounded to the nearest integer, a tie away from zero
HalfAwayFromZero(r) ==
  IF r >= 0 THEN (r + 500) \div 1000 ELSE -((500 - r) \div 1000)

\* n is r/1000 rounded to the nearest integer, a tie to the even one
IsNearestTiesEven(n, r) ==
  LET d == 1000 * n - r
  IN  /\ -500 <= d
      /\ d <= 500
      /\ (d = 500 \/ d = -500) => n % 2 = 0

\* The readings a DS18B20 reports: -55 to +125 degrees, in milli-degrees.
ProbeRange == (-55 * 1000)..(125 * 1000)

\* C2 as stated: every whole-degree value used for the decision is the raw
\* reading over 1000, rounded to the nearest integer, ties away from zero.
C2_RoundsTiesAwayFromZero ==
  pc \in {"decide", "send"} =>
    \A i \in DOMAIN temps_int :
      temps_int[i].v = HalfAwayFromZero(RawOf(temps_int[i].id))

\* C2, amended: every whole-degree value used for the decision is the raw
\* reading over 1000 rounded to the nearest integer, a tie going to the even
\* integer, for positive, zero and negative readings; 9500 gives 10 and LOW
\* at threshold 10, 9499 gives 9 and HIGH.
C2_RoundsTiesToEven ==
  /\ pc = "start" =>
       \A r \in ProbeRange : IsNearestTiesEven(PyRound(MilliToC(r)), r)
  /\ pc \in {"decide", "send"} =>
       \A i \in DOMAIN temps_int :
         LET r == RawOf(temps_int[i].id)
         IN  /\ IsNearestTiesEven(temps_int[i].v, r)
             /\ r = 9500 => temps_int[i].v = 10
             /\ r = 9499 => temps_int[i].v = 9
  /\ (pc = "send" /\ Len(paths) = 1) =>
       /\ paths[1].raw.n = 9500 => gpio = "LOW"
       /\ paths[1].raw.n = 9499 => gpio = "HIGH"

\* A tie above an even degree has been rounded: 10500 gave 10, not 11.
C2_Witness ==
  /\ pc = "decide"
  /\ \E i \in DOMAIN temps_int :
       /\ RawOf(temps_int[i].id) = 10500
       /\ temps_int[i].v = 10

\* ---------- C3 ----------

\* The cycle's steps are over: main is in time.sleep, or was when interrupted.
CycleOver == pc = "sleep" \/ (pc \in {"finally", "done"} /\ intAt = "sleep")

\* C3: no cycle computes more than one decision or attempts more than one
\* actuator write, and a cycle whose sensor read succeeded has, once its
\* steps are over, computed exactly one decision and attempted exactly one
\* write, whatever the collector's state and whether or not the report was
\* reached.
C3_OneDecisionOneWrite ==
  /\ nDecisions <= 1
  /\ nWrites <= 1
  /\ (CycleOver /\ nReads = 1 /\ failedStage # "read") =>
       (nDecisions = 1 /\ nWrites = 1)
  /\ pc = "send" => (nDecisions = 1 /\ nWrites = 1)

\* A cycle that ended with the report skipped (the write raised) after the
\* collector was down: still one decision and one write attempt.
C3_Witness ==
  /\ pc = "sleep"
  /\ ~sinkOK
  /\ failedStage = "actuate"
  /\ nReports = 0
  /\ nDecisions = 1
  /\ nWrites = 1

\* ---------- C4 ----------

\* C4: when main has returned after an interrupt (in a cycle step or in the
\* sleep, after any cycles), GPIO.cleanup has run exactly once and the pin is
\* released; from the cleanup on, the pin is not written or set up again and
\* no second cleanup happens.
C4_CleanupExactlyOnce ==
  /\ [](pc = "done" => (cleanupCount = 1 /\ gpio = "INPUT"))
  /\ [][cleanupCount >= 1 =>
          /\ gpio' = gpio
          /\ nWrites' = nWrites
          /\ setupCount' = setupCount
          /\ cleanupCount' = cleanupCount]_vars

\* Terminated from the sleep that followed a failed read.
C4_Witness ==
  /\ pc = "done"
  /\ intAt = "sleep"
  /\ failedStage = "read"
  /\ cycles >= 1
  /\ cleanupCount = 1
  /\ gpio = "INPUT"

\* ---------- C5 ----------

\* C5: a step in which a stage raises leads to the sleep without ending the
\* loop or cleaning up; from the sleep the only ways on are the next cycle's
\* read and the interrupt; and a cycle that failed is always followed by the
\* start of a new cycle, unless an interrupt is delivered.
C5_FailureSkipsCycle ==
  /\ [][(failedStage = "none" /\ failedStage' # "none") =>
          (pc' = "sleep" /\ cleanupCount' = cleanupCount /\ ~interrupted')]_vars
  /\ [][pc = "sleep" => pc' \in {"read", "finally"}]_vars
  /\ (pc = "sleep" /\ failedStage # "none") ~> (pc = "read" \/ interrupted)

\* After two cycles, the second of which failed, a new cycle has started and
\* read its sample.
C5_Witness ==
  /\ pc = "round"
  /\ cycles = 2
  /\ prevFailed
  /\ ~interrupted

\* ---------- C6 ----------

\* C6: with a collector that refuses every POST, each cycle whose read
\* succeeded attempts its actuator write, the level written is the one the
\* sample alone determines, and nothing but an interrupt ends the loop.
C6_TelemetryFaultIsolation ==
  ~sinkOK =>
    /\ (CycleOver /\ nReads = 1 /\ failedStage # "read") => nWrites = 1
    /\ Written =>
         \E m \in Values(RoundAll(temps_c)) :
           /\ IsLeast(m, Values(RoundAll(temps_c)))
           /\ gpio = IF m < THRESHOLD_C THEN "HIGH" ELSE "LOW"
    /\ pc \in {"finally", "done"} => interrupted
    /\ pc = "aborted" => setupCount = 0

\* The collector is down and the loop is past its third cycle, the output
\* written again.
C6_Witness ==
  /\ ~sinkOK
  /\ cycles >= 3
  /\ pc = "sleep"
  /\ failedStage = "none"
  /\ nWrites = 1
  /\ nReports = 1

\* ---------- C7 ----------

\* C7: an interrupt in any cycle step or in the sleep takes main straight to
\* the finally clause; after it no sensor read, decision, actuator write or
\* report happens and no cycle step or sleep is resumed; and main reaches
\* its end.
C7_InterruptStopsLoop ==
  /\ [][(~interrupted /\ interrupted') => pc' = "finally"]_vars
  /\ [][interrupted =>
          /\ pc' \notin CyclePcs
          /\ nReads' = nReads
          /\ nDecisions' = nDecisions
          /\ nWrites' = nWrites
          /\ nReports' = nReports]_vars
  /\ interrupted ~> (pc = "done")

\* Stopped by an interrupt that came during the sleep.
C7_Witness ==
  /\ pc = "done"
  /\ interrupted
  /\ intAt = "sleep"

\* ---------- C8 ----------

\* C8: before setup_gpio has run nothing has been read, decided, written or
\* reported and the pin is untouched; whenever main is in the loop
\* setup_gpio has run exactly once; it never runs twice.
C8_InitOnceBeforeFirstCycle ==
  /\ setupCount = 0 =>
       /\ pc \in {"start", "aborted"}
       /\ gpio = "UNSET"
       /\ nReads = 0 /\ nDecisions = 0 /\ nWrites = 0 /\ nReports = 0
       /\ cycles = 0
  /\ pc \in CyclePcs => (setupCount = 1 /\ gpio \in {"LOW", "HIGH"})
  /\ setupCount <= 1

\* The first read, with the pin set up LOW just before it.
C8_Witness ==
  /\ pc = "round"
  /\ cycles = 0
  /\ setupCount = 1
  /\ gpio = "LOW"

\* ---------- C9 ----------

\* The discovery found no file, or a file int() rejects.
Unreadable(found) == found = <<>> \/ \E i \in DOMAIN found : ~found[i].raw.numeric

\* C9: in a cycle whose discovery found nothing, or found a file that does
\* not parse (readable ones before or after it or not), the read raises, no
\* sample is bound, and the cycle goes to the sleep with no decision, no
\* actuator write and no report.
C9_FailedReadSkipsCycle ==
  (pc \in CyclePcs /\ nReads = 1 /\ Unreadable(paths)) =>
    /\ failedStage = "read"
    /\ pc = "sleep"
    /\ temps_c = <<>>
    /\ temps_int = <<>>
    /\ payload = <<>>
    /\ nDecisions = 0
    /\ nWrites = 0
    /\ nReports = 0

\* A readable probe first, an unparsable one second: the cycle is skipped.
C9_Witness ==
  /\ pc = "sleep"
  /\ Len(paths) = 2
  /\ paths[1].raw.numeric
  /\ ~paths[2].raw.numeric
  /\ SensorDir(paths[1].path) # SensorDir(paths[2].path)
  /\ failedStage = "read"

\* ---------- C10 ----------

HasDuplicateIds(found) ==
  \E i, j \in DOMAIN found :
    i < j /\ SensorDir(found[i].path) = SensorDir(found[j].path)

C11_OnlyStartupFailureIsFatal ==
  /\ [](pc = "aborted" =>
          /\ setupCount = 0 /\ cleanupCount = 0 /\ gpio = "UNSET"
          /\ nReads = 0 /\ nDecisions = 0 /\ nWrites = 0 /\ nReports = 0
          /\ cycles = 0 /\ payload = <<>> /\ lastWrite = "none")
  /\ [](pc \in {"finally", "done"} => interrupted)
  /\ [][pc = "start" => (pc' = "aborted" \/ setupCount' = setupCount + 1)]_vars
  /\ [][pc # "aborted"]_vars
  /\ [][pc' = "aborted" => pc = "start"]_vars
  /\ [][(failedStage = "none" /\ failedStage' # "none") => pc' \in CyclePcs]_vars
  /\ [][(pc \in CyclePcs /\ pc' \notin CyclePcs) => (~interrupted /\ interrupted')]_vars

\* setup_gpio raised: the process is over with the pin never set up.
C11_Witness ==
  /\ pc = "aborted"
  /\ setupCount = 0
  /\ gpio = "UNSET"
  /\ nReads = 0

\* ---------- C12 ----------

\* The level that the sample tc determines by itself.
LevelOfSample(tc) ==
  IF \E i \in DOMAIN tc : PyRound(tc[i].v) < THRESHOLD_C THEN "HIGH" ELSE "LOW"

\* C12: the level a cycle writes is a function of that cycle's sample and the
\* threshold alone: whatever the pin was before the cycle, whatever earlier
\* cycles read, decided or failed on, the written level is LevelOfSample of
\* the sample, so two runs reaching a cycle with the same sample write the
\* same level.
C12_DecisionMemoryless ==
  /\ [](Written => gpio = LevelOfSample(temps_c))
  /\ [][(pc = "decide" /\ pc' = "send") => gpio' = LevelOfSample(temps_c)]_vars

\* The pin was HIGH, the cycle before failed, and a sample exactly at the
\* threshold has been written LOW.
C12_Witness ==
  /\ Written
  /\ gpioBefore = "HIGH"
  /\ prevFailed
  /\ min_temp_int = <<THRESHOLD_C>>
  /\ gpio = "LOW"

\* ---------- C13 ----------

\* Every reordering of the sequence seq.
Reorderings(seq) ==
  LET n == Len(seq)
      bijections == {f \in [1..n -> 1..n] : \A i, j \in 1..n : i # j => f[i] # f[j]}
  IN  {[i \in 1..n |-> seq[f[i]]] : f \in bijections}

\* What a cycle selects and writes when the discovery is found: <<min, level>>.
SelectedFor(found) ==
  LET selected == PyMin(DictValues(RoundAll(read_all_temperatures_c(found).temps)))
  IN  <<selected, GpioLevelFor(selected)>>

\* Probe A at 12 degrees and probe B at 8, in that order.
TwelveAndEight ==
  <<[path |-> SensorPath("28-a"), raw |-> [numeric |-> TRUE, n |-> 12000]],
    [path |-> SensorPath("28-b"), raw |-> [numeric |-> TRUE, n |-> 8000]]>>

\* C13: readings of 12 and 8 degrees select 8 and HIGH in either order; and
\* whenever a cycle has written the output, every reordering of its rounded
\* sample, and every reordering of the discovery it came from (the probes
\* having distinct ids), selects the same least temperature and the same
\* level as the cycle did.
C13_OrderIndependent ==
  /\ pc = "start" =>
       \A found \in Reorderings(TwelveAndEight) : SelectedFor(found) = <<8, "HIGH">>
  /\ Written =>
       /\ \A reordered \in Reorderings(temps_int) :
            /\ PyMin(DictValues(reordered)) = min_temp_int[1]
            /\ GpioLevelFor(PyMin(DictValues(reordered))) = gpio
       /\ ~HasDuplicateIds(paths) =>
            \A found \in Reorderings(paths) :
              /\ read_all_temperatures_c(found).ok
              /\ SelectedFor(found) = <<min_temp_int[1], gpio>>

\* Two probes, the warm one enumerated first and the cold one second: the
\* cold one was selected and the output is HIGH.
C13_Witness ==
  /\ pc = "send"
  /\ Len(paths) = 2
  /\ Len(temps_int) = 2
  /\ temps_int[1].v >= THRESHOLD_C
  /\ temps_int[2].v < THRESHOLD_C
  /\ min_temp_int = <<temps_int[2].v>>
  /\ gpio = "HIGH"

\* ---------- C14 ----------

\* C14: a GPIO.output that returns leaves the pin at the level of the
\* decision applied; applying the decision that the latest returned write
\* applied leaves the pin as it was (no change of level); and in every state
\* in which a decision is about to be applied, the pin already at its level
\* or not, the write can return without error.
C14_ApplyIdempotent ==
  /\ [][(pc = "decide" /\ pc' = "send") =>
          gpio' = IF lastWrite' = "below" THEN "HIGH" ELSE "LOW"]_vars
  /\ [][(pc = "decide" /\ pc' = "send" /\ lastWrite # "none" /\ lastWrite' = lastWrite) =>
          gpio' = gpio]_vars
  /\ []((pc = "decide" /\ temps_int # <<>>) => ENABLED (SetOutput /\ pc' = "send"))

\* HIGH was applied by the cycle before and has been applied again by this
\* one: the pin is as it was.
C14_Witness ==
  /\ Written
  /\ cycles >= 1
  /\ ~prevFailed
  /\ gpioBefore = "HIGH"
  /\ lastWrite = "below"
  /\ gpio = "HIGH"

\* ---------- C15 ----------

\* C15: the steps of a cycle come in the order read, round, decide and
\* write, report; and whenever a payload has been built, the cycle's write
\* has returned without error, the payload's min_temperature_int_c is the
\* least rounded temperature, the one returned by the decision step and the
\* one whose comparison with the threshold gives the pin's level, and its
\* sensors list has exactly one entry per probe id of the discovery, with
\* that probe's reading over 1000 and its rounding.
C15_ReportMatchesActuation ==
  /\ [][/\ pc' = "round" => pc = "read"
        /\ pc' = "decide" => pc = "round"
        /\ pc' = "send" => pc = "decide"
        /\ payload' # payload /\ payload' # <<>> => pc = "send"]_vars
  /\ [](/\ nReports <= nWrites
        /\ nWrites <= nDecisions
        /\ nDecisions <= nReads)
  /\ [](payload # <<>> =>
          LET p == payload[1]
              ids == {SensorDir(paths[k].path) : k \in DOMAIN paths}
          IN  /\ pc = "sleep"
              /\ failedStage = "none"
              /\ nWrites = 1
              /\ p.unit = "C"
              /\ min_temp_int = <<p.min_temperature_int_c>>
              /\ IsLeast(p.min_temperature_int_c, Values(temps_int))
              /\ gpio = IF p.min_temperature_int_c < THRESHOLD_C THEN "HIGH" ELSE "LOW"
              /\ {p.sensors[i].id : i \in DOMAIN p.sensors} = ids
              /\ Len(p.sensors) = Cardinality(ids)
              /\ \A i \in DOMAIN p.sensors :
                   LET r == RawOf(p.sensors[i].id)
                   IN  /\ p.sensors[i].temperature_c.whole * 1000
                            + p.sensors[i].temperature_c.frac = r
                       /\ p.sensors[i].temperature_c.frac \in 0..999
                       /\ IsNearestTiesEven(p.sensors[i].temperature_int_c, r))

\* A payload for two probes, the second the colder: its minimum is the
\* second probe's rounded temperature and the pin is HIGH.
C15_Witness ==
  /\ pc = "sleep"
  /\ payload # <<>>
  /\ Len(payload[1].sensors) = 2
  /\ payload[1].sensors[1].temperature_int_c >= THRESHOLD_C
  /\ payload[1].sensors[2].temperature_int_c < THRESHOLD_C
  /\ payload[1].min_temperature_int_c = payload[1].sensors[2].temperature_int_c
  /\ gpio = "HIGH"

\* ---------- C16 ----------

\* C16: when set_output_based_on_temps is handed a dict of no readings it
\* cannot return normally; the step that runs it writes nothing to the pin,
\* leaves the pin's level as it was and takes main to its sleep with the
\* cycle marked failed in the decision; no payload is built in that cycle,
\* the process does not end, and the next cycle's read follows the sleep.
C16_EmptySampleFailsBeforeWrite ==
  /\ []((pc = "decide" /\ temps_int = <<>>) =>
          /\ ~ ENABLED (SetOutput /\ pc' = "send")
          /\ ENABLED (SetOutput /\ pc' = "sleep"))
  /\ [][(pc = "decide" /\ temps_int = <<>> /\ ~interrupted') =>
          /\ pc' = "sleep"
          /\ failedStage' = "decide"
          /\ gpio' = gpio
          /\ nWrites' = nWrites
          /\ nDecisions' = nDecisions]_vars
  /\ []((pc = "sleep" /\ failedStage = "decide") =>
          /\ gpio = gpioBefore
          /\ nWrites = 0
          /\ nReports = 0
          /\ payload = <<>>
          /\ min_temp_int = <<>>
          /\ ENABLED Sleep)
  /\ [][(pc = "sleep" /\ failedStage = "decide" /\ ~interrupted') =>
          pc' = "read" /\ gpio' = gpio /\ prevFailed']_vars

\* The empty sample reached the decision with the pin HIGH; the cycle is
\* being slept out with the pin still HIGH.
C16_Witness ==
  /\ pc = "sleep"
  /\ failedStage = "decide"
  /\ temps_int = <<>>
  /\ gpio = "HIGH"
  /\ nReads = 1

\* ---------- C17 ----------

\* C17: a cycle that fails before the write (no sensor file found, a file
\* that is no integer, a dict of no readings) has written nothing and leaves
\* the pin at the level it had when the cycle began; the sleep that follows
\* carries that level into the next cycle, so the level stays through
\* consecutive failed cycles. Within the loop the pin differs from its level
\* at the cycle's start only after a write of this cycle returned.
C17_SkippedCycleLeavesOutput ==
  /\ [][(failedStage = "none" /\ failedStage' \in {"read", "decide"}) =>
          gpio' = gpio /\ nWrites' = 0 /\ pc' = "sleep"]_vars
  /\ []((pc = "sleep" /\ failedStage \in {"read", "decide"}) =>
          /\ gpio = gpioBefore
          /\ nWrites = 0
          /\ nReports = 0)
  /\ [][(pc = "sleep" /\ failedStage \in {"read", "decide"} /\ pc' = "read") =>
          gpio' = gpio /\ gpioBefore' = gpio /\ prevFailed']_vars
  /\ []((pc \in CyclePcs /\ gpio # gpioBefore) =>
          failedStage = "none" /\ nWrites = 1)

\* The pin is HIGH at the end of a second failed cycle in a row, this one
\* failed by a file that is no integer.
C17_Witness ==
  /\ pc = "sleep"
  /\ failedStage = "read"
  /\ paths # <<>>
  /\ prevFailed
  /\ gpio = "HIGH"
  /\ gpioBefore = "HIGH"

\* ---------- C18 ----------

\* C18: from setup_gpio's return to GPIO.cleanup the pin is LOW while no
\* cycle's write has returned, and otherwise HIGH exactly when the least
\* rounded temperature of the latest cycle whose write returned was below
\* THRESHOLD_C; the record of the latest write changes only in a step of
\* the decision that wrote, and the pin's level changes only in setup_gpio,
\* in such a step of the decision and in GPIO.cleanup.
C18_OutputFollowsLatestWrite ==
  /\ []((pc \in CyclePcs \cup {"finally"}) =>
          /\ lastWrite = "none" => gpio = "LOW"
          /\ lastWrite # "none" => (gpio = "HIGH" <=> lastWrite = "below")
          /\ gpio \in {"LOW", "HIGH"})
  /\ [][(pc = "decide" /\ pc' = "send") =>
          /\ nWrites' = 1
          /\ \E m \in Values(temps_int) :
               /\ IsLeast(m, Values(temps_int))
               /\ lastWrite' = IF m < THRESHOLD_C THEN "below" ELSE "notbelow"]_vars
  /\ [][lastWrite' # lastWrite => (pc = "decide" /\ pc' = "send")]_vars
  /\ [][gpio' # gpio =>
          \/ pc = "start" /\ pc' = "read" /\ gpio' = "LOW"
          \/ pc = "decide" /\ pc' = "send"
          \/ pc = "finally" /\ pc' = "done"]_vars

\* A cold cycle wrote the pin HIGH, the cycle after it failed, and the next
\* cycle is about to read with the pin still HIGH.
C18_Witness ==
  /\ pc = "read"
  /\ cycles >= 2
  /\ prevFailed
  /\ lastWrite = "below"
  /\ gpio = "HIGH"

====
